---- MODULE Spec2Model ----
(***************************************************************************)
(* BinClassifier (src/finer/BinClassifier.h): the per-frame spectral-bin   *)
(* classifier of the Rubber Band Library.                                  *)
(*                                                                         *)
(* Magnitudes are doubles in the source.  Here a magnitude is a natural    *)
(* number counted in units of eps = 1.0e-7 (line 120), so eps itself is 1. *)
(* The harmonic and percussive thresholds are natural numbers and the      *)
(* silence threshold is a natural number of eps units.  The comparison     *)
(* a / (b + eps) > T of lines 126-130 is evaluated as a > T * (b + eps),   *)
(* which is the same comparison over the reals because b + eps > 0; the    *)
(* rounding of the floating-point division is not modelled.                *)
(*                                                                         *)
(* Memory is a heap of buffers.  The buffers allocated by the constructor  *)
(* have the addresses 1 .. lag + 2; the magnitude array a caller passes to *)
(* classify lives at a (negative) address of its own.                      *)
(***************************************************************************)
EXTENDS Integers, Sequences, FiniteSets, TLC

VARIABLES
    m_parameters,     \* Parameters, immutable after construction
    m_hFilters,       \* MovingMedianStack: per bin, the window, oldest value first
    m_hf,             \* double *m_hf: address of the horizontal working buffer
    m_vf,             \* double *m_vf: address of the vertical working buffer
    m_vfQueue,        \* RingBuffer<double *>: the queued addresses, oldest first
    heap,             \* address -> contents (a sequence of magnitudes)
    freed,            \* address -> number of deallocate calls made on it
    pc,               \* thread -> position of the thread inside the class
    lagged,           \* thread -> the local `lagged` of its classify call
    classification,   \* thread -> the output array of its classify call
    magIn,            \* thread -> the magnitudes its caller passed (history)
    frame,            \* number of classify calls started (history)
    hist,             \* the frames classified so far, first binCount bins (history)
    used,             \* the m_hf / m_vf contents the last decision stage read (history)
    resetAt,          \* value of frame at the last reset call, -1 if none (history)
    freshH,           \* m_hFilters of a classifier constructed at the last reset (history)
    qlog              \* queue traffic: pushes and pops, with the call that made them (history)

vars == <<m_parameters, m_hFilters, m_hf, m_vf, m_vfQueue, heap, freed, pc,
          lagged, classification, magIn, frame, hist, used, resetAt, freshH, qlog>>

----------------------------------------------------------------------------
(* Bounds of the model *)

\* classify calls per behaviour
MaxFrames == 4
\* entries of the caller's input and output arrays beyond binCount
Extra == 1

\* the frames fed to classify: binCount magnitudes each, in units of eps
FrameSet == {<<0, 0, 0>>, <<6, 6, 6>>, <<6, 0, 2>>, <<2, 6, 0>>}
Frames(n) == {f \in FrameSet : Len(f) = n}

\* the parameter records instances are constructed with
ParamSet ==
    [binCount : {3},
     horizontalFilterLength : {1, 3},
     horizontalFilterLag : {0, 1, 2},
     verticalFilterLength : {1, 3},
     harmonicThreshold : {2},
     percussiveThreshold : {1},
     silenceThreshold : {1, 3}]

----------------------------------------------------------------------------
(* Values *)

\* double eps = 1.0e-7, the unit magnitudes are counted in
Eps == 1

\* the null pointer, RingBuffer<double *>::readOne's result on an empty buffer
NULL == 0

\* enum class Classification
Harmonic == "Harmonic"
Percussive == "Percussive"
Residual == "Residual"
Silent == "Silent"
Labels == {Harmonic, Percussive, Residual, Silent}

\* an element of the output array that no call has written
Unwritten == "Unwritten"

\* the threads of the program, and the one that owns the instance and makes
\* every call on it
Threads == {1, 2}
Owner == 1

\* address of the magnitude array thread t passes to classify
MagAddr(t) == 0 - t

Range(s) == {s[i] : i \in DOMAIN s}

Zeros(n) == [i \in 1..n |-> 0]

----------------------------------------------------------------------------
(* MovingMedian<double> and MovingMedianStack<double> (common/MovingMedian.h) *)

\* the k-th smallest (k from 0) of the values of the sequence s
SortedAt(s, k) ==
    CHOOSE x \in Range(s) :
        /\ Cardinality({i \in DOMAIN s : s[i] < x}) <= k
        /\ k < Cardinality({i \in DOMAIN s : s[i] <= x})

\* MovingMedian::get: the 50th percentile of the window
MMGet(w) == SortedAt(w, (Len(w) * 50) \div 100)

\* MovingMedian::push: the oldest value leaves, the new one enters
MMPush(w, x) == Append(Tail(w), x)

\* MovingMedian::reset: the window of a filter that has seen nothing
MMReset(len) == Zeros(len)

\* MovingMedianStack::reset: every bin's window is reset
MMStackReset(n, len) == [i \in 1..n |-> MMReset(len)]

\* MovingMedian::filter(mm, v): the median along the index axis of v, in place;
\* the window of len values is centred, with zeros beyond both ends of v
VFilter(v, len) ==
    LET half == len \div 2
        at(k) == IF k \in 1..Len(v) THEN v[k] ELSE 0
        window(j) == [k \in 1..len |-> at(j + half - len + k)]
    IN  [j \in 1..Len(v) |-> MMGet(window(j))]

----------------------------------------------------------------------------
(* RingBuffer<double *> (common/RingBuffer.h), as a sequence, oldest first *)

\* getReadSpace
RBReadSpace(q) == Len(q)

\* write(&x, 1): x is queued unless the buffer already holds its capacity
RBWrite(q, cap, x) == IF Len(q) < cap THEN Append(q, x) ELSE q

\* readOne: the value returned, T() when nothing is queued
RBReadOneValue(q) == IF Len(q) > 0 THEN Head(q) ELSE NULL

\* readOne: the buffer afterwards
RBReadOneRest(q) == IF Len(q) > 0 THEN Tail(q) ELSE q

----------------------------------------------------------------------------
(* BinClassifier: the constructor, lines 67-83 *)

\* m_hf = allocate_and_zero<double>(n), line 76: the first buffer allocated
HfAddr == 1

\* m_vf = allocate_and_zero<double>(n), line 77: the second buffer allocated
VfAddr == 2

\* double *entry = allocate_and_zero<double>(n), line 80, in iteration i
EntryAddr(i) == 3 + i

\* line 72 constructing the queue one entry too small
QueueCapacityOneLess(p) == p.horizontalFilterLag - 1

\* m_vfQueue(parameters.horizontalFilterLag), line 72: the queue's capacity
QueueCapacity(p) == p.horizontalFilterLag

\* the loop of line 79 stopping one iteration early (i < lag - 1)
CtorIterationsShort(p) == {i \in 0..(p.horizontalFilterLag - 1) : i < p.horizontalFilterLag - 1}

\* the iterations of the loop of line 79
CtorIterations(p) == {i \in 0..(p.horizontalFilterLag - 1) : i < p.horizontalFilterLag}

\* the loop of lines 79-82, from iteration i on, with the queue q so far
RECURSIVE CtorFill(_, _, _)
CtorFill(i, p, q) ==
    IF i \in CtorIterations(p)
    THEN CtorFill(i + 1, p, RBWrite(q, QueueCapacity(p), EntryAddr(i)))
    ELSE q

\* the addresses the constructor allocates
CtorAllocated(p) == {HfAddr, VfAddr} \cup {EntryAddr(i) : i \in CtorIterations(p)}

\* the write calls of line 81, in order: the buffer, the call that made them
\* (0: the constructor) and whether the queue took the buffer
CtorPushLog(p) ==
    [k \in 1..Cardinality(CtorIterations(p)) |->
        [buf |-> EntryAddr(k - 1), at |-> 0, ok |-> k <= QueueCapacity(p)]]

\* the caller's arrays have Extra elements beyond binCount
ArrayLen(p) == p.binCount + Extra

\* the instance the constructor builds from the parameters p
InitFrom(p) ==
    /\ m_parameters = p
    /\ m_hFilters = MMStackReset(p.binCount, p.horizontalFilterLength)
    /\ m_hf = HfAddr
    /\ m_vf = VfAddr
    /\ m_vfQueue = CtorFill(0, p, <<>>)
    /\ heap = [a \in CtorAllocated(p) \cup {MagAddr(t) : t \in Threads} |->
                  IF a \in CtorAllocated(p) THEN Zeros(p.binCount)
                  ELSE Zeros(ArrayLen(p))]
    /\ freed = [a \in CtorAllocated(p) |-> 0]
    /\ pc = [t \in Threads |-> "idle"]
    /\ lagged = [t \in Threads |-> NULL]
    /\ classification = [t \in Threads |-> [i \in 1..ArrayLen(p) |-> Unwritten]]
    /\ magIn = [t \in Threads |-> Zeros(ArrayLen(p))]
    /\ frame = 0
    /\ hist = <<>>
    /\ used = [h |-> Zeros(p.binCount), v |-> Zeros(p.binCount)]
    /\ resetAt = -1
    /\ freshH = MMStackReset(p.binCount, p.horizontalFilterLength)
    /\ qlog = [pushed |-> CtorPushLog(p), popped |-> <<>>]

Init == \E p \in ParamSet : InitFrom(p)

----------------------------------------------------------------------------
(* BinClassifier::reset, lines 96-99 *)

\* the fields of the instance and the memory they point into
This ==
    [m_parameters |-> m_parameters, m_hFilters |-> m_hFilters, m_hf |-> m_hf,
     m_vf |-> m_vf, m_vfQueue |-> m_vfQueue, heap |-> heap, freed |-> freed]

\* a reset that forgets to call m_hFilters->reset()
ResetNothing(o) == o

\* a reset that also clears the delay line: every queued buffer is zeroed
ResetZeroesQueued(o) ==
    [o EXCEPT !.m_hFilters = MMStackReset(o.m_parameters.binCount,
                                          o.m_parameters.horizontalFilterLength),
              !.heap = [a \in DOMAIN @ |->
                           IF a \in Range(o.m_vfQueue)
                           THEN Zeros(o.m_parameters.binCount) ELSE @[a]]]

\* a reset that also empties the delay queue as the destructor does
ResetDrainsQueue(o) ==
    [o EXCEPT !.m_hFilters = MMStackReset(o.m_parameters.binCount,
                                          o.m_parameters.horizontalFilterLength),
              !.m_vfQueue = <<>>,
              !.freed = [a \in DOMAIN @ |->
                            @[a] + Cardinality({k \in DOMAIN o.m_vfQueue :
                                                   o.m_vfQueue[k] = a})]]

\* a reset that resets the filter of the first bin only
ResetFirstBinOnly(o) ==
    [o EXCEPT !.m_hFilters = [i \in DOMAIN @ |->
                                 IF i = 1 THEN MMReset(o.m_parameters.horizontalFilterLength)
                                 ELSE @[i]]]

\* line 98, m_hFilters->reset(): the instance after the call
ResetEffect(o) ==
    [o EXCEPT !.m_hFilters = MMStackReset(o.m_parameters.binCount,
                                          o.m_parameters.horizontalFilterLength)]

Reset(t) ==
    /\ pc[t] = "idle"
    /\ LET o == ResetEffect(This)
       IN  /\ m_parameters' = o.m_parameters
           /\ m_hFilters' = o.m_hFilters
           /\ m_hf' = o.m_hf
           /\ m_vf' = o.m_vf
           /\ m_vfQueue' = o.m_vfQueue
           /\ heap' = o.heap
           /\ freed' = o.freed
    /\ resetAt' = frame
    /\ freshH' = MMStackReset(m_parameters.binCount, m_parameters.horizontalFilterLength)
    /\ UNCHANGED <<pc, lagged, classification, magIn, frame, hist, used, qlog>>

----------------------------------------------------------------------------
(* BinClassifier::classify, lines 101-137 *)

\* lines 106-107: every bin's filter takes the bin's magnitude
PushAll(hf, mag, n) == [i \in 1..n |-> MMPush(hf[i], mag[i])]

\* line 108: the readout of every bin's filter
GetAll(hf, n) == [i \in 1..n |-> MMGet(hf[i])]

\* the array at address a with its first n elements replaced by those of src
WriteFirst(mem, a, src, n) ==
    [mem EXCEPT ![a] = [i \in DOMAIN mem[a] |-> IF i <= n THEN src[i] ELSE mem[a][i]]]

\* line 111 copying the frame into the horizontal buffer instead of m_vf
VCopyDstHf(t) == m_hf

\* v_copy(m_vf, mag, n), line 111: the address written
VCopyDst(t) == m_vf

\* the vertical filter applied to the caller's array instead of the copy
VFilterTargetMag(t) == MagAddr(t)

\* MovingMedian<double>::filter(*m_vFilter, m_vf), line 112: the address filtered
VFilterTarget(t) == m_vf

\* the test of line 114 written with >= instead of >
UsesQueueAlways(p) == p.horizontalFilterLag >= 0

\* the test of line 114 written as lag > 1
UsesQueueAboveOne(p) == p.horizontalFilterLag > 1

\* line 114: whether the delay queue is used
UsesQueue(p) == p.horizontalFilterLag > 0

\* lines 104-112: the horizontal filters, the copy and the vertical filter;
\* f is the frame the caller passes, in an array of ArrayLen elements
ClassifyFilters(t, f) ==
    /\ pc[t] = "idle"
    /\ frame < MaxFrames
    /\ LET p == m_parameters
           n == p.binCount
           arr == f \o [i \in 1..Extra |-> 6]
           mem0 == [heap EXCEPT ![MagAddr(t)] = arr]
           hfs == PushAll(m_hFilters, mem0[MagAddr(t)], n)
           mem1 == WriteFirst(mem0, m_hf, GetAll(hfs, n), n)
           mem2 == WriteFirst(mem1, VCopyDst(t), mem1[MagAddr(t)], n)
           tgt == VFilterTarget(t)
           mem3 == WriteFirst(mem2, tgt,
                              VFilter(SubSeq(mem2[tgt], 1, n), p.verticalFilterLength), n)
       IN  IF m_vf = NULL
           THEN /\ pc' = [pc EXCEPT ![t] = "crashed"]
                /\ UNCHANGED <<m_hFilters, heap, classification, magIn, frame, hist,
                               freshH>>
           ELSE /\ m_hFilters' = hfs
                /\ heap' = mem3
                /\ pc' = [pc EXCEPT ![t] = IF UsesQueue(p) THEN "pop" ELSE "decide"]
                /\ classification' =
                       [classification EXCEPT ![t] = [i \in 1..ArrayLen(p) |-> Unwritten]]
                /\ magIn' = [magIn EXCEPT ![t] = arr]
                /\ frame' = frame + 1
                /\ hist' = Append(hist, f)
                /\ freshH' = PushAll(freshH, f, n)
    /\ UNCHANGED <<m_parameters, m_hf, m_vf, m_vfQueue, freed, lagged, used, resetAt,
                   qlog>>

\* line 115: double *lagged = m_vfQueue.readOne()
Pop(t) ==
    /\ pc[t] = "pop"
    /\ lagged' = [lagged EXCEPT ![t] = RBReadOneValue(m_vfQueue)]
    /\ m_vfQueue' = RBReadOneRest(m_vfQueue)
    /\ qlog' = [qlog EXCEPT !.popped =
                    Append(@, [buf |-> RBReadOneValue(m_vfQueue), at |-> frame])]
    /\ pc' = [pc EXCEPT ![t] = "push"]
    /\ UNCHANGED <<m_parameters, m_hFilters, m_hf, m_vf, heap, freed, classification,
                   magIn, frame, hist, used, resetAt, freshH>>

\* line 116 writing the popped pointer back instead of m_vf
PushedEntryLagged(t) == lagged[t]

\* line 116: the pointer written to the queue
PushedEntry(t) == m_vf

\* line 116: m_vfQueue.write(&m_vf, 1)
Push(t) ==
    /\ pc[t] = "push"
    /\ m_vfQueue' = RBWrite(m_vfQueue, QueueCapacity(m_parameters), PushedEntry(t))
    /\ qlog' = [qlog EXCEPT !.pushed =
                    Append(@, [buf |-> PushedEntry(t), at |-> frame,
                               ok |-> Len(m_vfQueue) < QueueCapacity(m_parameters)])]
    /\ pc' = [pc EXCEPT ![t] = "assign"]
    /\ UNCHANGED <<m_parameters, m_hFilters, m_hf, m_vf, heap, freed, lagged,
                   classification, magIn, frame, hist, used, resetAt, freshH>>

\* line 117 left out: m_vf keeps the buffer that was just queued
NextVfUnchanged(t) == m_vf

\* line 117: the pointer m_vf takes
NextVf(t) == lagged[t]

\* lines 117-118: m_vf = lagged, and the local goes out of scope
Assign(t) ==
    /\ pc[t] = "assign"
    /\ m_vf' = NextVf(t)
    /\ lagged' = [lagged EXCEPT ![t] = NULL]
    /\ pc' = [pc EXCEPT ![t] = "decide"]
    /\ UNCHANGED <<m_parameters, m_hFilters, m_hf, m_vfQueue, heap, freed,
                   classification, magIn, frame, hist, used, resetAt, freshH, qlog>>

\* the tests of lines 124-134 with the harmonic test ahead of the silence test
LabelHarmonicFirst(m, h, v, p) ==
    IF h > p.harmonicThreshold * (v + Eps) THEN Harmonic
    ELSE IF m < p.silenceThreshold THEN Silent
    ELSE IF v > p.percussiveThreshold * (h + Eps) THEN Percussive
    ELSE Residual

\* the tests of lines 124-134 with the percussive test ahead of the harmonic test
LabelPercussiveFirst(m, h, v, p) ==
    IF m < p.silenceThreshold THEN Silent
    ELSE IF v > p.percussiveThreshold * (h + Eps) THEN Percussive
    ELSE IF h > p.harmonicThreshold * (v + Eps) THEN Harmonic
    ELSE Residual

\* the tests of lines 124-134 with >= in place of > in the two ratio tests
LabelNonStrict(m, h, v, p) ==
    IF m < p.silenceThreshold THEN Silent
    ELSE IF h >= p.harmonicThreshold * (v + Eps) THEN Harmonic
    ELSE IF v >= p.percussiveThreshold * (h + Eps) THEN Percussive
    ELSE Residual

\* lines 123-134: the label of a bin of magnitude m, horizontal readout h and
\* vertical estimate v
Label(m, h, v, p) ==
    IF m < p.silenceThreshold THEN Silent
    ELSE IF h > p.harmonicThreshold * (v + Eps) THEN Harmonic
    ELSE IF v > p.percussiveThreshold * (h + Eps) THEN Percussive
    ELSE Residual

\* the loop of line 122 stopping one bin early
DecideBinsShort(p) == 1..(p.binCount - 1)

\* line 122: the bins the decision loop visits
DecideBins(p) == 1..p.binCount

\* lines 120-136: the decision stage
Decide(t) ==
    /\ pc[t] = "decide"
    /\ IF m_vf = NULL
       THEN /\ pc' = [pc EXCEPT ![t] = "crashed"]
            /\ UNCHANGED <<classification, used>>
       ELSE /\ classification' =
                   [classification EXCEPT ![t] =
                       [i \in DOMAIN @ |->
                           IF i \in DecideBins(m_parameters)
                           THEN Label(heap[MagAddr(t)][i], heap[m_hf][i], heap[m_vf][i],
                                      m_parameters)
                           ELSE @[i]]]
            /\ used' = [h |-> heap[m_hf], v |-> heap[m_vf]]
            /\ pc' = [pc EXCEPT ![t] = "idle"]
    /\ UNCHANGED <<m_parameters, m_hFilters, m_hf, m_vf, m_vfQueue, heap, freed, lagged,
                   magIn, frame, hist, resetAt, freshH, qlog>>

----------------------------------------------------------------------------
(* BinClassifier::~BinClassifier, lines 85-94 *)

\* lines 87-90: the entries the loop reads from the queue q, in order
RECURSIVE DtorDrain(_)
DtorDrain(q) ==
    IF RBReadSpace(q) > 0
    THEN <<RBReadOneValue(q)>> \o DtorDrain(RBReadOneRest(q))
    ELSE <<>>

\* the destructor without the loop of lines 87-90
DtorDeallocatedNoDrain == <<m_hf, m_vf>>

\* lines 87-93: the pointers passed to deallocate, in order
DtorDeallocated == DtorDrain(m_vfQueue) \o <<m_hf, m_vf>>

Destroy(t) ==
    /\ \A u \in Threads : pc[u] = "idle"
    /\ LET d == DtorDeallocated
       IN  freed' = [a \in DOMAIN freed |->
                        freed[a] + Cardinality({k \in DOMAIN d : d[k] = a})]
    /\ m_vfQueue' = <<>>
    /\ pc' = [u \in Threads |-> "destroyed"]
    /\ UNCHANGED <<m_parameters, m_hFilters, m_hf, m_vf, heap, lagged, classification,
                   magIn, frame, hist, used, resetAt, freshH, qlog>>

----------------------------------------------------------------------------
(* The program: the owning thread calls classify, reset and the destructor, *)
(* one call after the other                                                 *)

Next ==
    \/ \E f \in Frames(m_parameters.binCount) : ClassifyFilters(Owner, f)
    \/ Pop(Owner)
    \/ Push(Owner)
    \/ Assign(Owner)
    \/ Decide(Owner)
    \/ Reset(Owner)
    \/ Destroy(Owner)

Spec == Init /\ [][Next]_vars

----------------------------------------------------------------------------
(* Instances of 4 bins, for the vertical filter: a window of 3 bins is *)
(* shorter than the frame                                              *)

VerticalFrameSet == {<<0, 0, 0, 0>>, <<6, 0, 2, 6>>, <<0, 6, 0, 0>>, <<2, 2, 6, 0>>}

VerticalParamSet ==
    [binCount : {4},
     horizontalFilterLength : {1},
     horizontalFilterLag : {0, 1},
     verticalFilterLength : {1, 3},
     harmonicThreshold : {2},
     percussiveThreshold : {1},
     silenceThreshold : {1}]

InitVertical == \E p \in VerticalParamSet : InitFrom(p)

NextVertical ==
    \/ \E f \in VerticalFrameSet : ClassifyFilters(Owner, f)
    \/ Pop(Owner)
    \/ Push(Owner)
    \/ Assign(Owner)
    \/ Decide(Owner)
    \/ Reset(Owner)
    \/ Destroy(Owner)

SpecVertical == InitVertical /\ [][NextVertical]_vars

----------------------------------------------------------------------------
(* The same frame classified again and again by an instance without lag and *)
(* without vertical smoothing; magnitudes in units of eps = 1.0e-7          *)

\* 0.5, 0.02, 0.5, 0.001 and three more frames of the same magnitudes
IdenticalFrameSet ==
    {<<5000000, 200000, 5000000, 10000>>,
     <<10000, 10000, 200000, 5000000>>,
     <<200000, 200000, 200000, 200000>>,
     <<0, 5000000, 0, 10000>>}

\* silenceThreshold 0.01
IdenticalParamSet ==
    [binCount : {4},
     horizontalFilterLength : {1, 2, 3},
     horizontalFilterLag : {0},
     verticalFilterLength : {1},
     harmonicThreshold : {1, 2},
     percussiveThreshold : {1, 2},
     silenceThreshold : {100000}]

InitIdentical == \E p \in IdenticalParamSet : InitFrom(p)

\* the caller passes the frame it passed before
ClassifySame(t) ==
    \E f \in IdenticalFrameSet :
        /\ hist # <<>> => f = hist[Len(hist)]
        /\ ClassifyFilters(t, f)

NextIdentical ==
    \/ ClassifySame(Owner)
    \/ Decide(Owner)
    \/ Reset(Owner)

SpecIdentical == InitIdentical /\ [][NextIdentical]_vars

----------------------------------------------------------------------------
(* Two threads calling classify on the same instance with no lock: the    *)
(* steps of the two calls interleave line by line                         *)

\* the number of classify calls the two threads make between them
MaxConcCalls == 3

ConcFrameSet == {<<6, 0, 2>>, <<2, 6, 0>>}

ConcParamSet ==
    [binCount : {3},
     horizontalFilterLength : {1},
     horizontalFilterLag : {1, 2},
     verticalFilterLength : {1},
     harmonicThreshold : {2},
     percussiveThreshold : {1},
     silenceThreshold : {1}]

InitConc == \E p \in ConcParamSet : InitFrom(p)

NextConc ==
    \E t \in Threads :
        \/ \E f \in ConcFrameSet : frame < MaxConcCalls /\ ClassifyFilters(t, f)
        \/ Pop(t)
        \/ Push(t)
        \/ Assign(t)
        \/ Decide(t)

SpecConc == InitConc /\ [][NextConc]_vars

----------------------------------------------------------------------------
(* Instances with a lag and with any percussiveThreshold, 0 included *)

LagParamSet ==
    [binCount : {3},
     horizontalFilterLength : {1, 3},
     horizontalFilterLag : {1, 2},
     verticalFilterLength : {1},
     harmonicThreshold : {2},
     percussiveThreshold : {0, 1, 2},
     silenceThreshold : {1}]

InitLag == \E p \in LagParamSet : InitFrom(p)

SpecLag == InitLag /\ [][Next]_vars

----------------------------------------------------------------------------
(* The decision stage on its own: a classify call that has reached line 120 *)

\* magnitudes, in units of eps, and thresholds the decision stage is tried on
DecideValues == {0, 1, 2, 6}
DecideThresholds == {0, 1, 2}
DecideSilence == {0, 1, 3}

\* the parameters of the instances the decision stage is tried in: 2 bins, a
\* horizontal window of 5 frames, a lag of 1 frame, no vertical smoothing
DecideParams(th, tp, sil) ==
    [binCount |-> 2, horizontalFilterLength |-> 5, horizontalFilterLag |-> 1,
     verticalFilterLength |-> 1, harmonicThreshold |-> th, percussiveThreshold |-> tp,
     silenceThreshold |-> sil]

\* the state in which the fifth classify call of an instance constructed from
\* DecideParams reaches line 120, when the frames classified were hv, hv, hv,
\* vv and mv: the horizontal readout is then hv (the median of hv, hv, hv, vv,
\* mv), the vertical estimate popped is the one of the fourth frame, vv, and
\* the magnitudes are mv
InitDecideFrom(th, tp, sil, hv, vv, mv) ==
    LET p == DecideParams(th, tp, sil)
        n == p.binCount
        arr == mv \o [i \in 1..Extra |-> 6]
        w4 == [i \in 1..n |-> <<0, hv[i], hv[i], hv[i], vv[i]>>]
        w5 == PushAll(w4, mv, n)
    IN  /\ m_parameters = p
        /\ m_hFilters = w5
        /\ m_hf = HfAddr
        /\ m_vf = EntryAddr(0)
        /\ m_vfQueue = <<VfAddr>>
        /\ heap = (HfAddr :> GetAll(w5, n)) @@
                  (VfAddr :> VFilter(mv, p.verticalFilterLength)) @@
                  (EntryAddr(0) :> VFilter(vv, p.verticalFilterLength)) @@
                  [a \in {MagAddr(t) : t \in Threads} |->
                      IF a = MagAddr(Owner) THEN arr ELSE Zeros(ArrayLen(p))]
        /\ freed = [a \in CtorAllocated(p) |-> 0]
        /\ pc = [t \in Threads |-> IF t = Owner THEN "decide" ELSE "idle"]
        /\ lagged = [t \in Threads |-> NULL]
        /\ classification = [t \in Threads |-> [i \in 1..ArrayLen(p) |-> Unwritten]]
        /\ magIn = [t \in Threads |-> IF t = Owner THEN arr ELSE Zeros(ArrayLen(p))]
        /\ frame = 5
        /\ hist = <<hv, hv, hv, vv, mv>>
        /\ used = [h |-> GetAll(w4, n), v |-> VFilter(hv, p.verticalFilterLength)]
        /\ resetAt = -1
        /\ freshH = w5
        /\ qlog = [pushed |-> CtorPushLog(p) \o
                                  [k \in 1..5 |->
                                      [buf |-> IF k % 2 = 1 THEN VfAddr ELSE EntryAddr(0),
                                       at |-> k, ok |-> TRUE]],
                   popped |-> [k \in 1..5 |->
                                  [buf |-> IF k % 2 = 1 THEN EntryAddr(0) ELSE VfAddr,
                                   at |-> k]]]

InitDecide ==
    \E th \in DecideThresholds, tp \in DecideThresholds, sil \in DecideSilence :
        \E hv \in [1..2 -> DecideValues], vv \in [1..2 -> DecideValues],
           mv \in [1..2 -> DecideValues] :
            InitDecideFrom(th, tp, sil, hv, vv, mv)

NextDecide == Decide(Owner)

SpecDecide == InitDecide /\ [][NextDecide]_vars

----------------------------------------------------------------------------
(* Properties *)

\* the lag L, the bin count and the state between two calls
Lag == m_parameters.horizontalFilterLag
BinCount == m_parameters.binCount
Returned == pc[Owner] = "idle" /\ frame > 0

\* the vertical filter's output for the k-th frame classified (k from 1)
VerticalOf(k) == VFilter(hist[k], m_parameters.verticalFilterLength)

\* C1: after every classify call, whatever calls came before it, every bin
\* carries one of the four labels, and a bin whose magnitude is below
\* silenceThreshold carries Silent.
C1_LabelsAndSilence ==
    Returned =>
        \A i \in 1..BinCount :
            /\ classification[Owner][i] \in Labels
            /\ magIn[Owner][i] < m_parameters.silenceThreshold
                   => classification[Owner][i] = Silent

\* a call has returned with a bin below the silence threshold whose readouts
\* pass the harmonic test, after a reset and with a lagged vertical estimate
C1_Witness ==
    /\ Returned
    /\ resetAt >= 0
    /\ Lag > 0
    /\ \E i \in 1..BinCount :
           /\ magIn[Owner][i] < m_parameters.silenceThreshold
           /\ used.h[i] > m_parameters.harmonicThreshold * (used.v[i] + Eps)
           /\ classification[Owner][i] = Silent

\* C2: with lag L > 0, the vertical estimate the decision stage of the t-th
\* call reads (t from 0, t >= L) is the vertical filter's output for the frame
\* of call t - L, whatever resets are interleaved.
C2_LaggedVertical ==
    (Returned /\ Lag > 0 /\ frame - 1 >= Lag) => used.v = VerticalOf(frame - Lag)

\* a call t >= L = 2 has returned after a reset, and the estimate it read
\* differs from the outputs for the frames of calls t, t - L + 1 and t - L - 1
C2_Witness ==
    /\ Returned
    /\ Lag = 2
    /\ frame = 4
    /\ resetAt \in 1..3
    /\ used.v = VerticalOf(2)
    /\ used.v # VerticalOf(4)
    /\ used.v # VerticalOf(3)
    /\ used.v # VerticalOf(1)
    /\ used.v # Zeros(BinCount)

\* C3: with lag 0, the vertical estimate the decision stage reads is the
\* vertical filter's output for the frame of the same call, and no classify
\* call reads or writes the delay queue.
C3_NoLag ==
    Lag = 0 =>
        /\ Returned => used.v = VerticalOf(frame)
        /\ qlog.popped = <<>>
        /\ qlog.pushed = <<>>
        /\ m_vfQueue = <<>>

\* with lag 0, a second call has returned whose estimate is neither its frame
\* unfiltered nor the output for the frame before
C3_Witness ==
    /\ Returned
    /\ Lag = 0
    /\ frame >= 2
    /\ used.v = VerticalOf(frame)
    /\ used.v # hist[frame]
    /\ used.v # VerticalOf(frame - 1)
    /\ used.v # Zeros(BinCount)

\* the instance exists: constructed and not destroyed
Alive == \A t \in Threads : pc[t] # "destroyed"

\* the buffers of a sequence of log entries
Bufs(log) == [k \in DOMAIN log |-> log[k].buf]

\* the queue discipline both forms of C4 share: between calls the queue holds
\* L entries; no push was dropped; the pops are, in order, the first pushes
\* (FIFO, each pushed buffer popped at most once) and what is still queued is
\* exactly the pushes not popped yet, in order
QueueDiscipline ==
    /\ pc[Owner] = "idle" => Len(m_vfQueue) = Lag
    /\ \A k \in DOMAIN qlog.pushed : qlog.pushed[k].ok
    /\ \A k \in DOMAIN qlog.popped : qlog.popped[k].buf # NULL
    /\ pc[Owner] \in {"idle", "pop", "decide"}
           => Bufs(qlog.pushed) = Bufs(qlog.popped) \o m_vfQueue

\* C4 as stated: the queue discipline, and every pushed buffer, the
\* constructor's included, is popped exactly L classify calls after its push.
C4_Original ==
    Alive =>
        /\ QueueDiscipline
        /\ \A k \in DOMAIN qlog.popped :
               qlog.popped[k].at = qlog.pushed[k].at + Lag

\* C4, amended: the queue discipline; a buffer pushed by a classify call is
\* popped exactly L classify calls later, and the i-th buffer the constructor
\* pushed is popped by the i-th classify call.
C4_QueueFifo ==
    Alive =>
        /\ QueueDiscipline
        /\ \A k \in DOMAIN qlog.popped :
               IF qlog.pushed[k].at > 0
               THEN qlog.popped[k].at = qlog.pushed[k].at + Lag
               ELSE qlog.popped[k].at = k

\* with L = 2 and a reset in between, the buffer the first call pushed has
\* been popped by the third, after both of the constructor's entries
C4_Witness ==
    /\ Returned
    /\ Lag = 2
    /\ resetAt \in 1..2
    /\ Len(qlog.popped) >= 3
    /\ qlog.pushed[3].at = 1
    /\ qlog.popped[3].at = 3
    /\ qlog.popped[3].buf = VfAddr
    /\ Len(m_vfQueue) = 2

\* the number of places among the queue, m_hf and m_vf that hold buffer a
Owners(a) ==
    Cardinality({k \in DOMAIN m_vfQueue : m_vfQueue[k] = a})
        + (IF m_hf = a THEN 1 ELSE 0) + (IF m_vf = a THEN 1 ELSE 0)

\* the buffers allocated so far
Allocated == DOMAIN freed

\* C5 as stated: at every step from construction to destruction, the steps of
\* the rotation included, each allocated buffer is held by exactly one of the
\* queue, m_hf and m_vf.
C5_Original == Alive => \A a \in Allocated : Owners(a) = 1

\* C5, amended: each of the lag + 2 buffers is held by exactly one of the
\* queue, m_hf and m_vf at every step outside the rotation (between calls,
\* before the pop and from m_vf = lagged on); between the pop and the push
\* the popped buffer is held by the local `lagged` alone, and between the push
\* and m_vf = lagged the pushed buffer is held by both the queue and m_vf.
C5_Ownership ==
    Alive =>
        /\ Allocated = 1..(Lag + 2)
        /\ pc[Owner] \notin {"push", "assign"} => \A a \in Allocated : Owners(a) = 1
        /\ pc[Owner] = "push" =>
               /\ lagged[Owner] \in Allocated
               /\ \A a \in Allocated :
                      Owners(a) = IF a = lagged[Owner] THEN 0 ELSE 1
        /\ pc[Owner] = "assign" =>
               /\ lagged[Owner] \in Allocated
               /\ lagged[Owner] # m_vf
               /\ \A a \in Allocated :
                      Owners(a) = IF a = lagged[Owner] THEN 0
                                  ELSE IF a = m_vf THEN 2 ELSE 1

\* with L = 2, the rotation of a third call is complete: every buffer has
\* changed places and each has one owner
C5_Witness ==
    /\ pc[Owner] = "decide"
    /\ Lag = 2
    /\ frame >= 3
    /\ resetAt >= 1
    /\ m_vf = VfAddr
    /\ m_vfQueue = <<EntryAddr(0), EntryAddr(1)>>
    /\ \A a \in Allocated : Owners(a) = 1

\* C6: the constructor allocates exactly lag + 2 buffers, and once the
\* destructor has run, after any calls, each of them has been deallocated
\* exactly once.
C6_Balanced ==
    /\ Cardinality(Allocated) = Lag + 2
    /\ pc[Owner] = "destroyed" => \A a \in Allocated : freed[a] = 1

\* the destructor has run with L = 2 after four calls and a reset, when every
\* buffer had left the place the constructor gave it
C6_Witness ==
    /\ pc[Owner] = "destroyed"
    /\ Lag = 2
    /\ frame = 4
    /\ resetAt >= 1
    /\ m_vf = EntryAddr(0)
    /\ \A a \in 1..4 : freed[a] = 1

\* C7: a reset call, wherever it is made, leaves the delay queue (its length
\* and the order of its entries), the contents of every buffer (the queued ones
\* and the vertical working buffer included), the pointers m_hf and m_vf, the
\* parameters and the allocations as they were: only the horizontal filters'
\* histories may change.
C7_ResetFrame ==
    [][resetAt' # resetAt =>
           /\ m_vfQueue' = m_vfQueue
           /\ heap' = heap
           /\ m_vf' = m_vf
           /\ m_hf' = m_hf
           /\ m_parameters' = m_parameters
           /\ freed' = freed]_vars

\* a reset has just been made with L = 2 while the horizontal filters held
\* history and a queued buffer and the vertical working buffer held estimates
C7_Witness ==
    /\ pc[Owner] = "idle"
    /\ resetAt = frame
    /\ frame >= 2
    /\ Lag = 2
    /\ m_hFilters = MMStackReset(BinCount, m_parameters.horizontalFilterLength)
    /\ used.h # Zeros(BinCount)
    /\ \E k \in DOMAIN m_vfQueue : heap[m_vfQueue[k]] # Zeros(BinCount)
    /\ heap[m_vf] # Zeros(BinCount)

\* the horizontal readout of the last call equals the readout of a classifier
\* constructed at the last reset and fed the frames classified since
FreshHorizontal == used.h = GetAll(freshH, BinCount)

\* the last call is one of the first L calls after a reset
EarlyAfterReset == Returned /\ resetAt >= 0 /\ frame - resetAt \in 1..Lag

\* C8 as stated: after a reset, every call's horizontal readout is that of a
\* freshly constructed classifier fed the post-reset frames, and in the first
\* L post-reset calls the vertical estimate is the filter's output for a frame
\* classified before the reset (read here for a reset that at least one
\* classify call preceded).
C8_Original ==
    /\ (Returned /\ resetAt >= 0 /\ frame > resetAt) => FreshHorizontal
    /\ (EarlyAfterReset /\ resetAt >= 1) =>
           /\ frame - Lag \in 1..resetAt
           /\ used.v = VerticalOf(frame - Lag)

\* C8, amended: after a reset, every call's horizontal readout is that of a
\* freshly constructed classifier fed the post-reset frames, and in the first
\* L post-reset calls the vertical estimate is the entry the queue held at the
\* reset: the filter's output for the pre-reset frame L calls back, or the
\* constructor's all-zero entry when fewer than L calls were made so far.
C8_ResetHorizontalOnly ==
    /\ (Returned /\ resetAt >= 0 /\ frame > resetAt) => FreshHorizontal
    /\ EarlyAfterReset =>
           IF frame > Lag
           THEN frame - Lag \in 1..resetAt /\ used.v = VerticalOf(frame - Lag)
           ELSE used.v = Zeros(BinCount)

\* with L = 2, the first call after a reset that followed two calls: bin 1 had
\* magnitude 6 in the last pre-reset frame and in this frame, yet its readout
\* over the window of 3 is 0, while the vertical estimate is a pre-reset one
C8_Witness ==
    /\ Returned
    /\ Lag = 2
    /\ m_parameters.horizontalFilterLength = 3
    /\ resetAt = 2
    /\ frame = 3
    /\ hist[2][1] = 6
    /\ hist[3][1] = 6
    /\ used.h[1] = 0
    /\ used.v = VerticalOf(1)
    /\ used.v # Zeros(BinCount)

\* the numbers of allocations and of deallocations performed so far
AllocCount == Cardinality(Allocated)
RECURSIVE SumFreed(_)
SumFreed(S) ==
    IF S = {} THEN 0
    ELSE LET a == CHOOSE x \in S : TRUE IN freed[a] + SumFreed(S \ {a})
DeallocCount == SumFreed(Allocated)

\* C9: from the end of construction to the start of destruction, at every step
\* of every classify and reset call, lag + 2 allocations and no deallocation
\* have been performed.
C9_NoAllocation == Alive => AllocCount = Lag + 2 /\ DeallocCount = 0

\* four calls and a reset have been made with L = 2
C9_Witness ==
    /\ Returned
    /\ Lag = 2
    /\ frame = 4
    /\ resetAt \in 1..3
    /\ AllocCount = 4
    /\ DeallocCount = 0

\* C10: a classify call writes a label to each of the first binCount elements
\* of the output array and nothing beyond them, and at no step does it change
\* an element of the caller's magnitude array.
C10_WritesOnlyLabels ==
    /\ Returned =>
           \A i \in DOMAIN classification[Owner] :
               IF i <= BinCount
               THEN classification[Owner][i] \in Labels
               ELSE classification[Owner][i] = Unwritten
    /\ (Alive /\ frame > 0) => heap[MagAddr(Owner)] = magIn[Owner]

\* a call has returned whose vertical filter changed the copy of the frame
C10_Witness ==
    /\ Returned
    /\ Lag = 0
    /\ m_parameters.verticalFilterLength = 3
    /\ used.v # SubSeq(magIn[Owner], 1, BinCount)
    /\ heap[MagAddr(Owner)] = magIn[Owner]
    /\ \A i \in 1..BinCount : classification[Owner][i] \in Labels
    /\ classification[Owner][BinCount + 1] = Unwritten

\* the three tests of lines 124-134 on bin i of the last call: the magnitude
\* passed in, and the horizontal readout and vertical estimate the decision
\* stage read
SilenceTest(i) == magIn[Owner][i] < m_parameters.silenceThreshold
HarmonicTest(i) == used.h[i] > m_parameters.harmonicThreshold * (used.v[i] + Eps)
PercussiveTest(i) == used.v[i] > m_parameters.percussiveThreshold * (used.h[i] + Eps)

\* C12: a bin whose magnitude is not below silenceThreshold is Harmonic if
\* horizontal / (vertical + eps) > harmonicThreshold, otherwise Percussive if
\* vertical / (horizontal + eps) > percussiveThreshold, otherwise Residual; so
\* Harmonic wins when both ratio tests pass, and a ratio equal to its
\* threshold selects nothing.
C12_PriorityOrder ==
    Returned =>
        \A i \in 1..BinCount :
            ~ SilenceTest(i) =>
                classification[Owner][i] =
                    IF HarmonicTest(i) THEN Harmonic
                    ELSE IF PercussiveTest(i) THEN Percussive
                    ELSE Residual

\* the fifth call of an instance fed hv, hv, hv, vv, mv has returned; bin 1
\* passes both ratio tests and is Harmonic, and the horizontal readout of bin 2
\* is exactly harmonicThreshold times (vertical + eps), with a harmonicThreshold
\* of at least 1, and bin 2 is not Harmonic
C12_Witness ==
    /\ Returned
    /\ frame = 5
    /\ used.h = hist[1] /\ used.v = hist[4]
    /\ ~ SilenceTest(1) /\ HarmonicTest(1) /\ PercussiveTest(1)
    /\ classification[Owner][1] = Harmonic
    /\ ~ SilenceTest(2)
    /\ m_parameters.harmonicThreshold >= 1
    /\ used.h[2] = m_parameters.harmonicThreshold * (used.v[2] + Eps)
    /\ classification[Owner][2] \in {Percussive, Residual}

\* the tests among lines 124-134 that bin i of the last call passes
TestsPassed(i) ==
    {c \in {"silence", "harmonic", "percussive"} :
        \/ c = "silence" /\ SilenceTest(i)
        \/ c = "harmonic" /\ HarmonicTest(i)
        \/ c = "percussive" /\ PercussiveTest(i)}

\* C13 as stated: for all non-negative thresholds, no bin passes more than one
\* of the silence test, the harmonic ratio test and the percussive ratio test.
C13_Original ==
    Returned => \A i \in 1..BinCount : Cardinality(TestsPassed(i)) <= 1

\* C13, amended: when harmonicThreshold and percussiveThreshold are both at
\* least 1, no bin passes both ratio tests, and the label written is the one
\* the tests give with the percussive test ahead of the harmonic test; the
\* silence test stays first.
C13_RatioTestsExclusive ==
    (Returned /\ m_parameters.harmonicThreshold >= 1
              /\ m_parameters.percussiveThreshold >= 1) =>
        \A i \in 1..BinCount :
            /\ ~ (HarmonicTest(i) /\ PercussiveTest(i))
            /\ classification[Owner][i] =
                   IF SilenceTest(i) THEN Silent
                   ELSE IF PercussiveTest(i) THEN Percussive
                   ELSE IF HarmonicTest(i) THEN Harmonic
                   ELSE Residual

\* both thresholds are at least 1; bin 1 passes the silence test and the
\* harmonic test and is Silent, bin 2 passes the harmonic test only and is
\* Harmonic
C13_Witness ==
    /\ Returned
    /\ m_parameters.harmonicThreshold >= 1
    /\ m_parameters.percussiveThreshold >= 1
    /\ TestsPassed(1) = {"silence", "harmonic"}
    /\ classification[Owner][1] = Silent
    /\ TestsPassed(2) = {"harmonic"}
    /\ classification[Owner][2] = Harmonic

\* lines 111-112 of the current call have run and m_vf is still the buffer
\* they wrote
Filtered ==
    /\ frame > 0
    /\ \/ pc[Owner] \in {"pop", "push"}
       \/ pc[Owner] = "decide" /\ Lag = 0

\* the bins of the window of verticalFilterLength bins centred on bin j
VerticalWindow(j) ==
    {j - m_parameters.verticalFilterLength \div 2 + k :
        k \in 0..(m_parameters.verticalFilterLength - 1)}

\* the magnitude of bin k of the current frame, 0 outside the frame
CurrentMag(k) == IF k \in 1..BinCount THEN hist[frame][k] ELSE 0

\* x is the median of the current frame's magnitudes over the window of bin j
IsVerticalMedian(x, j) ==
    /\ \E k \in VerticalWindow(j) : CurrentMag(k) = x
    /\ 2 * Cardinality({k \in VerticalWindow(j) : CurrentMag(k) < x})
           < m_parameters.verticalFilterLength
    /\ 2 * Cardinality({k \in VerticalWindow(j) : CurrentMag(k) > x})
           < m_parameters.verticalFilterLength

SinceReset == IF resetAt >= 0 THEN frame - resetAt ELSE frame

\* C15: without lag and without vertical smoothing, once the same frame has
\* been classified horizontalFilterLength times or more, with both ratio
\* thresholds at least 1, every bin below silenceThreshold is Silent and every
\* other bin is Residual; for horizontalFilterLength 3, thresholds 2, 2 and
\* 0.01 and the frame 0.5, 0.02, 0.5, 0.001 the third call writes Residual,
\* Residual, Residual, Silent.
C15_IdenticalFrames ==
    /\ (/\ Returned
        /\ Lag = 0 /\ m_parameters.verticalFilterLength = 1
        /\ m_parameters.harmonicThreshold >= 1 /\ m_parameters.percussiveThreshold >= 1
        /\ SinceReset >= m_parameters.horizontalFilterLength
        /\ \A k \in 1..frame : hist[k] = hist[frame]) =>
           \A i \in 1..BinCount :
               classification[Owner][i] =
                   IF hist[frame][i] < m_parameters.silenceThreshold THEN Silent
                   ELSE Residual
    /\ (/\ Returned
        /\ m_parameters = [binCount |-> 4, horizontalFilterLength |-> 3,
                           horizontalFilterLag |-> 0, verticalFilterLength |-> 1,
                           harmonicThreshold |-> 2, percussiveThreshold |-> 2,
                           silenceThreshold |-> 100000]
        /\ resetAt = -1
        /\ hist = [k \in 1..3 |-> <<5000000, 200000, 5000000, 10000>>]) =>
           SubSeq(classification[Owner], 1, 4) = <<Residual, Residual, Residual, Silent>>

\* the third call of the instance of the scenario has returned, with a
\* horizontal readout and a vertical estimate both equal to the frame
C15_Witness ==
    /\ Returned
    /\ m_parameters.horizontalFilterLength = 3
    /\ m_parameters.harmonicThreshold = 2 /\ m_parameters.percussiveThreshold = 2
    /\ resetAt = -1
    /\ hist = [k \in 1..3 |-> <<5000000, 200000, 5000000, 10000>>]
    /\ used.h = <<5000000, 200000, 5000000, 10000>>
    /\ used.v = <<5000000, 200000, 5000000, 10000>>
    /\ SubSeq(classification[Owner], 1, 4) = <<Residual, Residual, Residual, Silent>>

\* every thread but t is between calls
OthersIdle(t) == \A u \in Threads \ {t} : pc[u] = "idle"

\* what holds of the buffers at each step of a classify call of thread t that
\* runs alone: the queue holds L entries and every buffer has one owner,
\* except that between the pop and the push the queue holds L - 1 entries and
\* the popped buffer is held by t's local alone, and between the push and
\* m_vf = lagged the pushed buffer is held by the queue and by m_vf
ConsistentAt(t) ==
    /\ pc[t] # "crashed"
    /\ Allocated = 1..(Lag + 2)
    /\ pc[t] \in {"idle", "pop", "decide"} =>
           /\ Len(m_vfQueue) = Lag
           /\ \A a \in Allocated : Owners(a) = 1
    /\ pc[t] = "push" =>
           /\ Len(m_vfQueue) = Lag - 1
           /\ lagged[t] \in Allocated
           /\ \A a \in Allocated : Owners(a) = IF a = lagged[t] THEN 0 ELSE 1
    /\ pc[t] = "assign" =>
           /\ Len(m_vfQueue) = Lag
           /\ lagged[t] \in Allocated
           /\ lagged[t] # m_vf
           /\ \A a \in Allocated :
                  Owners(a) = IF a = lagged[t] THEN 0 ELSE IF a = m_vf THEN 2 ELSE 1

\* C16: a step of a classify call taken while no other call is in progress
\* keeps the queue length and the ownership of the buffers as they are in
\* sequential use, so calls made one after the other never corrupt them; two
\* calls whose steps interleave do (the state C16_Witness describes).
C16_SequentialStepsKeep ==
    [][\A t \in Threads :
           (OthersIdle(t) /\ pc'[t] # pc[t] /\ ConsistentAt(t)) => ConsistentAt(t)']_vars

\* two calls, one per thread, on an instance with lag 1 have interleaved and
\* both have returned: the buffer the first call pushed is in the queue and in
\* m_vf, and the buffer the constructor queued is held by nothing
C16_Witness ==
    /\ \A t \in Threads : pc[t] = "idle"
    /\ Lag = 1
    /\ frame = 2
    /\ Len(qlog.popped) = 2
    /\ m_vfQueue = <<VfAddr>>
    /\ m_vf = VfAddr
    /\ Owners(VfAddr) = 2
    /\ Owners(EntryAddr(0)) = 0
    /\ \A t \in Threads : \A i \in 1..BinCount : classification[t][i] \in Labels

\* C17: with lag L > 0, the decision stage of each of the first L classify
\* calls after construction reads the all-zero vertical estimate of an entry
\* the constructor queued, and labels no bin Percussive, whatever the frames
\* and whatever the non-negative percussiveThreshold.
C17_FirstCallsZeroVertical ==
    (Returned /\ Lag > 0 /\ frame <= Lag) =>
        /\ used.v = Zeros(BinCount)
        /\ qlog.popped[frame].buf = EntryAddr(frame - 1)
        /\ \A i \in 1..BinCount : classification[Owner][i] # Percussive

\* the second call of an instance with lag 2 and percussiveThreshold 0 has
\* returned after non-zero frames, having read a zero vertical estimate; a bin
\* whose horizontal readout is 0 is Residual
C17_Witness ==
    /\ Returned
    /\ Lag = 2
    /\ frame = 2
    /\ m_parameters.percussiveThreshold = 0
    /\ VerticalOf(1) # Zeros(BinCount)
    /\ VerticalOf(2) # Zeros(BinCount)
    /\ used.v = Zeros(BinCount)
    /\ \E i \in 1..BinCount :
           /\ magIn[Owner][i] >= m_parameters.silenceThreshold
           /\ used.h[i] = 0
           /\ classification[Owner][i] = Residual

\* C18: the constructor fills the queue to its capacity, which is the lag;
\* in every classify call the pop comes before the push, the pop finds the
\* queue non-empty (so it never hands a null buffer to m_vf) and the push
\* finds it one short of full (so it never drops the buffer), whatever
\* classify and reset calls came before.
C18_PopBeforePush ==
    Alive =>
        /\ Len(qlog.pushed) >= Lag
        /\ \A k \in 1..Lag : qlog.pushed[k].at = 0 /\ qlog.pushed[k].ok
        /\ frame = 0 => RBReadSpace(m_vfQueue) = Lag
        /\ pc[Owner] = "pop" =>
               /\ RBReadSpace(m_vfQueue) = Lag
               /\ RBReadSpace(m_vfQueue) > 0
               /\ Len(qlog.popped) = Len(qlog.pushed) - Lag
        /\ pc[Owner] = "push" =>
               /\ lagged[Owner] # NULL
               /\ RBReadSpace(m_vfQueue) = Lag - 1
               /\ Len(qlog.popped) = Len(qlog.pushed) - Lag + 1
        /\ pc[Owner] = "assign" =>
               /\ lagged[Owner] # NULL
               /\ RBReadSpace(m_vfQueue) = Lag
               /\ qlog.pushed[Len(qlog.pushed)].ok
        /\ m_vf # NULL
        /\ pc[Owner] # "crashed"

\* with lag 1, a call made after a reset has popped the only entry and is
\* about to push into the empty queue
C18_Witness ==
    /\ pc[Owner] = "push"
    /\ Lag = 1
    /\ frame >= 2
    /\ resetAt >= 1
    /\ m_vfQueue = <<>>
    /\ lagged[Owner] \in Allocated
    /\ Len(qlog.popped) = frame

\* the labels a freshly constructed classifier with the same parameters
\* writes when its k-th call (k > L) is the last call: its horizontal windows
\* hold the frames classified since the reset and nothing else, and its
\* vertical estimate is the filter's output for the frame L calls back
FreshLabels ==
    [i \in 1..BinCount |->
        Label(hist[frame][i], GetAll(freshH, BinCount)[i], VerticalOf(frame - Lag)[i],
              m_parameters)]

\* C19: after a reset, from the (L+1)-th classify call on, the labels written
\* are those a freshly constructed classifier with the same parameters writes
\* when fed the frames classified since the reset; with L = 0, from the first
\* call after the reset on.
C19_ConvergesAfterReset ==
    (Returned /\ resetAt >= 0 /\ frame - resetAt > Lag) =>
        SubSeq(classification[Owner], 1, BinCount) = FreshLabels

\* with lag 1 and a horizontal window of 3, the second call after a reset has
\* returned: it read the vertical estimate of the first frame after the
\* reset, and horizontal readouts in which the frame classified before the
\* reset no longer counts, which differ from those of an instance that was
\* not reset
C19_Witness ==
    /\ Returned
    /\ Lag = 1
    /\ m_parameters.horizontalFilterLength = 3
    /\ resetAt = 1
    /\ frame = 3
    /\ used.v = VerticalOf(2)
    /\ used.h = GetAll([i \in 1..BinCount |-> <<0, hist[2][i], hist[3][i]>>], BinCount)
    /\ used.h # GetAll([i \in 1..BinCount |-> <<hist[1][i], hist[2][i], hist[3][i]>>],
                       BinCount)
    /\ SubSeq(classification[Owner], 1, BinCount) = FreshLabels

====
